---------------------------- MODULE Spec2Model ----------------------------
(***************************************************************************)
(* Model of the Step/Task execution engine of the AAA package              *)
(* (AAA/task_class.py) together with the filesystem side effects it polls  *)
(* (log files, scheduler report files, project companion files) and the    *)
(* external executions it starts (local processes, scheduler jobs).        *)
(***************************************************************************)
EXTENDS Integers, Sequences, FiniteSets, TLC

(***************************************************************************)
(* Bounds of the model.                                                    *)
(***************************************************************************)
\* Largest number of steps appended to a Task before polling starts.
MaxSteps == 2
\* Largest number of times one step is dispatched (or its closure invoked).
MaxDispatch == 2

(***************************************************************************)
(* Values.                                                                 *)
(***************************************************************************)
\* Step.step_type values accepted by the constructor.
StepTypes == {"Script", "Analysis", "Python"}

\* Task.exec_option values handled by execute_script / run_job.
ExecOptions == {"local", "euler"}

\* Any other exec_option: Task.__init__ stores what it is given.
UnknownOption == "other"

\* No exception: the latest call returned.
NoException == "none"

\* What a log file can hold, as far as the engine can tell: a line with the
\* lock-error substring, a line with an '[error]' token, or neither.
LogContents == {"clean", "error", "lock"}

\* What a log file left by an earlier campaign may hold.
StaleContents == {"stale", "stale lock"}

\* A file that does not exist.
Absent == "absent"

\* The companion files of a project that clean_project_files removes.
file_to_check ==
    <<".aedt.q.completed", ".aedt.batchinfo", ".aedt.lock", ".aedt.temp", ".aedt.auto">>

\* Companion files an external run of the application may leave behind.
Residues == {{}, {".aedt.lock"}, {file_to_check[k] : k \in DOMAIN file_to_check}}

\* Step.job_id values: None, the digits found after the marker word 'Job',
\* or the diagnostic string "no job id in: ...".
NoneId == [kind |-> "None"]
JobNumber(n) == [kind |-> "digits", n |-> n]
NoJobId == [kind |-> "no job id in"]

VARIABLES
    exec_option,    \* exec_option[t]: Task.exec_option
    steps,          \* steps[t]: Task.steps, a sequence of Step records
    step_iterator,  \* step_iterator[t]: Task.step_iterator (0-based cursor)
    done,           \* done[t]: Task.done
    log,            \* log[t][i]: content of the log file of step i, or Absent
    lsf,            \* lsf[t]: job ids whose report file 'lsf.o<id>' exists
    renamed,        \* renamed[t]: steps whose 'lfs_<log>.txt' file exists
    companions,     \* companions[t]: existing companion files of the project
    status,         \* what the latest execute_step call wrote to the status sink
    jobs,           \* scheduler jobs that have not yet delivered their report
    next_job,       \* the number the scheduler gives to the next job
    ncalls,         \* ncalls[t][i]: dispatches (or closure invocations) of step i
    exception,      \* the exception the latest call ended with, or NoException
    p_ratio_tasks,  \* PRatioAnalysis.p_ratio_tasks: the driver's list of Tasks
    driver,         \* where run_p_ratio_tasks is, and what its round has polled
    call,           \* the latest call of a dispatch function, with its effects
    recov,          \* a recovery action invoked on its own, once and twice
    scripted_step   \* a ScriptedStep under construction: its flags and its script

task_vars == <<exec_option, steps, step_iterator, done, log, lsf, renamed,
               companions, status, jobs, next_job, ncalls>>

vars == <<exec_option, steps, step_iterator, done, log, lsf, renamed,
          companions, status, jobs, next_job, ncalls,
          exception, p_ratio_tasks, driver, call, recov, scripted_step>>

Tasks == DOMAIN steps

\* The Step constructor: done and in_progress false, no job id.
Step(type) ==
    [step_type |-> type, done |-> FALSE, in_progress |-> FALSE, job_id |-> NoneId]

\* current_step = self.steps[self.step_iterator]
current_step(t) == steps[t][step_iterator[t] + 1]

(***************************************************************************)
(* Initial state: one Task, constructed and filled with 1..MaxSteps steps  *)
(* of any kinds, in a working directory that may still hold log files of   *)
(* an earlier campaign.  Nothing has been dispatched.                      *)
(***************************************************************************)
TaskConfigs(ids) ==
    [ids -> UNION {[1..n -> StepTypes] : n \in 1..MaxSteps}]

\* Log files a working directory may hold before the first dispatch: none,
\* or the log of an earlier run, with or without the lock error.  (The first
\* dispatch removes the file without reading it.)
StaleLogs(kinds) ==
    {l \in [DOMAIN kinds -> {Absent} \cup StaleContents] :
        \A i \in DOMAIN kinds : kinds[i] = "Python" => l[i] = Absent}

InitTasks(ids) ==
    /\ exec_option \in [ids -> ExecOptions \cup {UnknownOption}]
    /\ \E kinds \in TaskConfigs(ids) :
          /\ steps = [t \in ids |-> [i \in DOMAIN kinds[t] |-> Step(kinds[t][i])]]
          /\ log \in {l \in [ids -> UNION {StaleLogs(kinds[t]) : t \in ids}] :
                        \A t \in ids : l[t] \in StaleLogs(kinds[t])}
          /\ ncalls = [t \in ids |-> [i \in DOMAIN kinds[t] |-> 0]]
    /\ step_iterator = [t \in ids |-> 0]
    /\ done = [t \in ids |-> FALSE]
    /\ lsf = [t \in ids |-> {}]
    /\ renamed = [t \in ids |-> {}]
    /\ companions \in [ids -> Residues]
    /\ status = << >>
    /\ jobs = {}
    /\ next_job = 1

\* The driver before run_p_ratio_tasks is called.
DriverIdle == [pc |-> "idle", index |-> 0, live |-> {}, polled |-> << >>]

\* No dispatch function has been called on its own.
NoCall == [function |-> "none"]

\* No ScriptedStep is being written.
NoScriptedStep == [script |-> << >>]

\* No recovery action has been invoked on its own.
NoRecovery == [action |-> "none"]

\* The parts of the state that a poll of a Task by hand leaves alone.
Elsewhere ==
    /\ exception = NoException
    /\ p_ratio_tasks = << >>
    /\ driver = DriverIdle
    /\ call = NoCall
    /\ recov = NoRecovery
    /\ scripted_step = NoScriptedStep

Init == InitTasks({1}) /\ Elsewhere

(***************************************************************************)
(* Helpers of execute_step.                                                *)
(***************************************************************************)
\* next_step with the cursor wrapping around to the first step at the end.
next_step_wraps(t) ==
    IF step_iterator[t] + 1 = Len(steps[t])
    THEN /\ done' = [done EXCEPT ![t] = TRUE]
         /\ step_iterator' = [step_iterator EXCEPT ![t] = 0]
    ELSE /\ step_iterator' = [step_iterator EXCEPT ![t] = @ + 1]
         /\ UNCHANGED done

\* next_step with the end test off by one: done is set one step early.
next_step_early(t) ==
    IF step_iterator[t] + 2 >= Len(steps[t])
    THEN /\ done' = [done EXCEPT ![t] = TRUE]
         /\ UNCHANGED step_iterator
    ELSE /\ step_iterator' = [step_iterator EXCEPT ![t] = @ + 1]
         /\ UNCHANGED done

\* next_step that moves the cursor past the last step when the Task is done.
next_step_overruns(t) ==
    /\ step_iterator' = [step_iterator EXCEPT ![t] = @ + 1]
    /\ done' = [done EXCEPT ![t] = @ \/ step_iterator[t] + 1 = Len(steps[t])]

\* Task.next_step: the cursor moves on, or the Task is done when the cursor
\* is on the last step.
next_step(t) ==
    IF step_iterator[t] + 1 = Len(steps[t])
    THEN /\ done' = [done EXCEPT ![t] = TRUE]
         /\ UNCHANGED step_iterator
    ELSE /\ step_iterator' = [step_iterator EXCEPT ![t] = @ + 1]
         /\ UNCHANGED done

\* find_lock_error_syndrome that never finds the text.
find_lock_error_syndrome_never(content) == FALSE

\* find_lock_error_syndrome: some line of the log holds the lock-error text.
find_lock_error_syndrome(content) == content \in {"lock", "stale lock"}

\* detect_errors_from_log_file: what the scan writes to the status sink.
detect_errors_from_log_file(content) ==
    <<"Checking for errors and warnings">>
        \o (IF content = "error" THEN <<"[error]">> ELSE << >>)

\* clean_project_files: the messages written, one per companion file removed.
clean_messages(t) ==
    LET present == SelectSeq(file_to_check, LAMBDA f : f \in companions[t])
    IN  [k \in DOMAIN present |-> "Removed " \o present[k]]

\* clean_project_files: the companion files left afterwards.
clean_project_files(t) ==
    companions[t] \ {file_to_check[k] : k \in DOMAIN file_to_check}

\* SetStep that assigns the field on every step of the Task.
SetStep_of_every_step(t, field, value) ==
    [steps EXCEPT ![t] = [i \in DOMAIN @ |-> [@[i] EXCEPT ![field] = value]]]

\* SetStep that records a job id with every assignment, whatever the backend.
SetStep_with_job_id(t, field, value) ==
    [steps EXCEPT ![t][step_iterator[t] + 1][field] = value,
                  ![t][step_iterator[t] + 1].job_id = JobNumber(0)]

\* The current step with some of its fields assigned.
SetStep(t, field, value) ==
    [steps EXCEPT ![t][step_iterator[t] + 1][field] = value]

(***************************************************************************)
(* Task.execute_step, one action per path through the method.              *)
(***************************************************************************)
\* StepAlreadyDone that also re-arms the step it leaves (in_progress cleared).
StepAlreadyDone_rearms(t) ==
    /\ current_step(t).done
    /\ next_step(t)
    /\ steps' = SetStep(t, "in_progress", FALSE)
    /\ status' = << >>
    /\ UNCHANGED <<exec_option, log, lsf, renamed, companions, jobs,
                   next_job, ncalls>>

\* Lines 191-193: the current step is done, the cursor moves on.
StepAlreadyDone(t) ==
    /\ current_step(t).done
    /\ next_step(t)
    /\ status' = << >>
    /\ UNCHANGED <<exec_option, steps, log, lsf, renamed, companions, jobs,
                   next_job, ncalls>>

\* Lines 194-204: a 'Python' step; the closure is called, an exception it
\* raises is caught and reported, and next_step is called either way.
PythonStep(t) ==
    /\ ~current_step(t).done
    /\ current_step(t).step_type = "Python"
    /\ ncalls[t][step_iterator[t] + 1] < MaxDispatch
    /\ \E raised \in BOOLEAN :
          status' = <<"Executing python step">>
                      \o (IF raised THEN <<"Error for optimization plotting">>
                                    ELSE << >>)
    /\ ncalls' = [ncalls EXCEPT ![t][step_iterator[t] + 1] = @ + 1]
    /\ next_step(t)
    /\ UNCHANGED <<exec_option, steps, log, lsf, renamed, companions, jobs, next_job>>

\* Lines 225-230: messages of a dispatch, after the stale log is removed.
dispatch_messages(t) ==
    (IF log[t][step_iterator[t] + 1] # Absent
        THEN <<"Pre existing log file removed">> ELSE << >>)
        \o <<"Executing">>

\* Lines 223-252 with exec_option 'local': the stale log is removed, the
\* application runs to its end inside the call (subprocess.call), writing
\* its log or not, and the step is in progress.  No job id is recorded.
DispatchLocal(t) ==
    LET i == step_iterator[t] + 1 IN
    /\ ~current_step(t).done
    /\ current_step(t).step_type # "Python"
    /\ ~current_step(t).in_progress
    /\ exec_option[t] = "local"
    /\ ncalls[t][i] < MaxDispatch
    /\ \E written \in {Absent} \cup LogContents, left \in Residues :
          /\ log' = [log EXCEPT ![t][i] = written]
          /\ companions' = [companions EXCEPT ![t] = @ \cup left]
    /\ steps' = SetStep(t, "in_progress", TRUE)
    /\ status' = dispatch_messages(t)
    /\ ncalls' = [ncalls EXCEPT ![t][i] = @ + 1]
    /\ UNCHANGED <<exec_option, step_iterator, done, lsf, renamed, jobs, next_job>>

\* DispatchEuler without lines 225-227: a log file that is there stays.
DispatchEuler_keeps_log(t) ==
    LET i == step_iterator[t] + 1 IN
    /\ ~current_step(t).done
    /\ current_step(t).step_type # "Python"
    /\ ~current_step(t).in_progress
    /\ exec_option[t] = "euler"
    /\ ncalls[t][i] < MaxDispatch
    /\ jobs' = jobs \cup {[task |-> t, step |-> i, id |-> next_job,
                            phase |-> "running"]}
    /\ next_job' = next_job + 1
    /\ steps' = [steps EXCEPT ![t][i].in_progress = TRUE,
                              ![t][i].job_id = JobNumber(next_job)]
    /\ status' = <<"Executing", "Job ID">>
    /\ ncalls' = [ncalls EXCEPT ![t][i] = @ + 1]
    /\ UNCHANGED <<exec_option, step_iterator, done, log, lsf, renamed, companions>>

\* Lines 223-256 with exec_option 'euler': the stale log is removed, the
\* submission script is run and its output parsed for the job id.  Either
\* the scheduler accepted the job and printed 'Job <n> is submitted ...',
\* or it printed something else and no job exists.
DispatchEuler(t) ==
    LET i == step_iterator[t] + 1 IN
    /\ ~current_step(t).done
    /\ current_step(t).step_type # "Python"
    /\ ~current_step(t).in_progress
    /\ exec_option[t] = "euler"
    /\ ncalls[t][i] < MaxDispatch
    /\ log' = [log EXCEPT ![t][i] = Absent]
    /\ \E submitted \in BOOLEAN :
          LET job_id == IF submitted THEN JobNumber(next_job) ELSE NoJobId IN
          /\ jobs' = IF submitted
                        THEN jobs \cup {[task |-> t, step |-> i, id |-> next_job,
                                         phase |-> "running"]}
                        ELSE jobs
          /\ next_job' = IF submitted THEN next_job + 1 ELSE next_job
          /\ steps' = [steps EXCEPT ![t][i].in_progress = TRUE,
                                    ![t][i].job_id = job_id]
    /\ status' = dispatch_messages(t) \o <<"Job ID">>
    /\ ncalls' = [ncalls EXCEPT ![t][i] = @ + 1]
    /\ UNCHANGED <<exec_option, step_iterator, done, lsf, renamed, companions>>

\* Lines 223-256 with exec_option 'euler', when the scheduler accepted the
\* job but find_job_id_from_exec_output found no id in what it printed: the
\* job runs, and the step records the 'no job id in: ...' text as its job_id.
DispatchEulerUnparsed(t) ==
    LET i == step_iterator[t] + 1 IN
    /\ ~current_step(t).done
    /\ current_step(t).step_type # "Python"
    /\ ~current_step(t).in_progress
    /\ exec_option[t] = "euler"
    /\ ncalls[t][i] < MaxDispatch
    /\ log' = [log EXCEPT ![t][i] = Absent]
    /\ jobs' = jobs \cup {[task |-> t, step |-> i, id |-> next_job,
                            phase |-> "running"]}
    /\ next_job' = next_job + 1
    /\ steps' = [steps EXCEPT ![t][i].in_progress = TRUE,
                              ![t][i].job_id = NoJobId]
    /\ status' = dispatch_messages(t) \o <<"Job ID">>
    /\ ncalls' = [ncalls EXCEPT ![t][i] = @ + 1]
    /\ UNCHANGED <<exec_option, step_iterator, done, lsf, renamed, companions>>

\* Lines 223-239 with any other exec_option and a 'Script' step: the stale
\* log is removed, then execute_script raises (Execute_Script.py line 62);
\* line 252 is not reached.
DispatchUnknownScript(t) ==
    LET i == step_iterator[t] + 1 IN
    /\ ~current_step(t).done
    /\ current_step(t).step_type = "Script"
    /\ ~current_step(t).in_progress
    /\ exec_option[t] \notin ExecOptions
    /\ log' = [log EXCEPT ![t][i] = Absent]
    /\ status' = dispatch_messages(t)
    /\ exception' = "Exception: execution option not handled"
    /\ UNCHANGED <<exec_option, steps, step_iterator, done, lsf, renamed,
                   companions, jobs, next_job, ncalls>>

\* Lines 223-252 with any other exec_option and an 'Analysis' step: the
\* stale log is removed, run_job matches neither branch and returns None
\* without running anything, and the step is in progress.
DispatchUnknownAnalysis(t) ==
    LET i == step_iterator[t] + 1 IN
    /\ ~current_step(t).done
    /\ current_step(t).step_type = "Analysis"
    /\ ~current_step(t).in_progress
    /\ exec_option[t] \notin ExecOptions
    /\ ncalls[t][i] < MaxDispatch
    /\ log' = [log EXCEPT ![t][i] = Absent]
    /\ steps' = SetStep(t, "in_progress", TRUE)
    /\ status' = dispatch_messages(t)
    /\ ncalls' = [ncalls EXCEPT ![t][i] = @ + 1]
    /\ exception' = NoException
    /\ UNCHANGED <<exec_option, step_iterator, done, lsf, renamed, companions,
                   jobs, next_job>>

\* PollNoLog with a timeout: the step is given up and marked done.
PollNoLog_timeout(t) ==
    /\ ~current_step(t).done
    /\ current_step(t).step_type # "Python"
    /\ current_step(t).in_progress
    /\ log[t][step_iterator[t] + 1] = Absent
    /\ status' = << >>
    /\ steps' = SetStep(t, "done", TRUE)
    /\ UNCHANGED <<exec_option, step_iterator, done, log, lsf, renamed,
                   companions, jobs, next_job, ncalls>>

\* Lines 258-260: the step is in progress and its log file does not exist.
PollNoLog(t) ==
    /\ ~current_step(t).done
    /\ current_step(t).step_type # "Python"
    /\ current_step(t).in_progress
    /\ log[t][step_iterator[t] + 1] = Absent
    /\ status' = << >>
    /\ UNCHANGED <<exec_option, steps, step_iterator, done, log, lsf, renamed,
                   companions, jobs, next_job, ncalls>>

\* CompleteLocal that marks the step done and moves the cursor in one call.
CompleteLocal_and_advance(t) ==
    LET i == step_iterator[t] + 1 IN
    /\ ~current_step(t).done
    /\ current_step(t).step_type # "Python"
    /\ current_step(t).in_progress
    /\ log[t][i] # Absent
    /\ ~find_lock_error_syndrome(log[t][i])
    /\ exec_option[t] = "local"
    /\ status' = <<"No error lock syndrome detected">>
                   \o detect_errors_from_log_file(log[t][i])
                   \o <<"Preventive cleaning">> \o clean_messages(t)
    /\ companions' = [companions EXCEPT ![t] = clean_project_files(t)]
    /\ steps' = SetStep(t, "done", TRUE)
    /\ next_step(t)
    /\ UNCHANGED <<exec_option, log, lsf, renamed, jobs, next_job, ncalls>>

\* Lines 263-280: local backend, log without the lock error: scan, clean,
\* and the step is done.
CompleteLocal(t) ==
    LET i == step_iterator[t] + 1 IN
    /\ ~current_step(t).done
    /\ current_step(t).step_type # "Python"
    /\ current_step(t).in_progress
    /\ log[t][i] # Absent
    /\ ~find_lock_error_syndrome(log[t][i])
    /\ exec_option[t] = "local"
    /\ status' = <<"No error lock syndrome detected">>
                   \o detect_errors_from_log_file(log[t][i])
                   \o <<"Preventive cleaning">> \o clean_messages(t)
    /\ companions' = [companions EXCEPT ![t] = clean_project_files(t)]
    /\ steps' = SetStep(t, "done", TRUE)
    /\ UNCHANGED <<exec_option, step_iterator, done, log, lsf, renamed, jobs,
                   next_job, ncalls>>

\* report_exists without the test: the report is taken to be there.
report_exists_always(t) == TRUE

\* Line 285: the report file 'lsf.o' + job_id exists in the working directory.
report_exists(t) == current_step(t).job_id \in lsf[t]

\* CompleteEuler without the os.rename of lines 295-299: the report stays.
CompleteEuler_leaves_report(t) ==
    LET i == step_iterator[t] + 1 IN
    /\ ~current_step(t).done
    /\ current_step(t).step_type # "Python"
    /\ current_step(t).in_progress
    /\ log[t][i] # Absent
    /\ ~find_lock_error_syndrome(log[t][i])
    /\ exec_option[t] # "local"
    /\ current_step(t).job_id # NoneId
    /\ report_exists(t)
    /\ status' = <<"No error lock syndrome detected">>
                   \o detect_errors_from_log_file(log[t][i])
                   \o <<"Preventive cleaning">> \o clean_messages(t)
                   \o <<"script execution completed">>
    /\ companions' = [companions EXCEPT ![t] = clean_project_files(t)]
    /\ steps' = SetStep(t, "done", TRUE)
    /\ UNCHANGED <<exec_option, step_iterator, done, log, lsf, renamed, jobs,
                   next_job, ncalls>>

\* (With job_id None, 'lsf.o' + job_id raises TypeError; that needs the log
\* of a step that no backend ran, which nothing writes.)
\* Lines 281-312: cluster backend, log without the lock error and the report
\* file of the recorded job id exists: scan, rename the report, clean, and
\* the step is done.
CompleteEuler(t) ==
    LET i == step_iterator[t] + 1 IN
    /\ ~current_step(t).done
    /\ current_step(t).step_type # "Python"
    /\ current_step(t).in_progress
    /\ log[t][i] # Absent
    /\ ~find_lock_error_syndrome(log[t][i])
    /\ exec_option[t] # "local"
    /\ current_step(t).job_id # NoneId
    /\ report_exists(t)
    /\ status' = <<"No error lock syndrome detected">>
                   \o detect_errors_from_log_file(log[t][i])
                   \o <<" lsf.o file renamed">>
                   \o <<"Preventive cleaning">> \o clean_messages(t)
                   \o <<"script execution completed">>
    /\ lsf' = [lsf EXCEPT ![t] = @ \ {current_step(t).job_id}]
    /\ renamed' = [renamed EXCEPT ![t] = @ \cup {i}]
    /\ companions' = [companions EXCEPT ![t] = clean_project_files(t)]
    /\ steps' = SetStep(t, "done", TRUE)
    /\ UNCHANGED <<exec_option, step_iterator, done, log, jobs, next_job, ncalls>>

\* Lines 281-285: cluster backend, log without the lock error, but the
\* report file does not exist: nothing is done.
PollNoReport(t) ==
    LET i == step_iterator[t] + 1 IN
    /\ ~current_step(t).done
    /\ current_step(t).step_type # "Python"
    /\ current_step(t).in_progress
    /\ log[t][i] # Absent
    /\ ~find_lock_error_syndrome(log[t][i])
    /\ exec_option[t] # "local"
    /\ current_step(t).job_id # NoneId
    /\ ~report_exists(t)
    /\ status' = << >>
    /\ UNCHANGED <<exec_option, steps, step_iterator, done, log, lsf, renamed,
                   companions, jobs, next_job, ncalls>>

\* LockErrorReset that forgets to remove the log file.
LockErrorReset_keeps_log(t) ==
    LET i == step_iterator[t] + 1 IN
    /\ ~current_step(t).done
    /\ current_step(t).step_type # "Python"
    /\ current_step(t).in_progress
    /\ log[t][i] # Absent
    /\ find_lock_error_syndrome(log[t][i])
    /\ status' = <<"Error lock syndrome detected",
                   "Check and remove potential completion and lock files">>
                   \o clean_messages(t)
    /\ companions' = [companions EXCEPT ![t] = clean_project_files(t)]
    /\ steps' = SetStep(t, "in_progress", FALSE)
    /\ UNCHANGED <<exec_option, step_iterator, done, log, lsf, renamed, jobs,
                   next_job, ncalls>>

\* LockErrorReset that gives the step up after its second dispatch.
LockErrorReset_gives_up(t) ==
    LET i == step_iterator[t] + 1 IN
    /\ ~current_step(t).done
    /\ current_step(t).step_type # "Python"
    /\ current_step(t).in_progress
    /\ log[t][i] # Absent
    /\ find_lock_error_syndrome(log[t][i])
    /\ status' = <<"Error lock syndrome detected",
                   "Check and remove potential completion and lock files">>
                   \o clean_messages(t)
    /\ companions' = [companions EXCEPT ![t] = clean_project_files(t)]
    /\ log' = [log EXCEPT ![t][i] = Absent]
    /\ steps' = IF ncalls[t][i] > 1 THEN SetStep(t, "done", TRUE)
                                    ELSE SetStep(t, "in_progress", FALSE)
    /\ UNCHANGED <<exec_option, step_iterator, done, lsf, renamed, jobs,
                   next_job, ncalls>>

\* Lines 313-323: the log holds the lock error: clean, remove the log, and
\* the step is no longer in progress, so that the next call dispatches it.
LockErrorReset(t) ==
    LET i == step_iterator[t] + 1 IN
    /\ ~current_step(t).done
    /\ current_step(t).step_type # "Python"
    /\ current_step(t).in_progress
    /\ log[t][i] # Absent
    /\ find_lock_error_syndrome(log[t][i])
    /\ status' = <<"Error lock syndrome detected",
                   "Check and remove potential completion and lock files">>
                   \o clean_messages(t)
    /\ companions' = [companions EXCEPT ![t] = clean_project_files(t)]
    /\ log' = [log EXCEPT ![t][i] = Absent]
    /\ steps' = SetStep(t, "in_progress", FALSE)
    /\ UNCHANGED <<exec_option, step_iterator, done, lsf, renamed, jobs,
                   next_job, ncalls>>

execute_step(t) ==
    \/ StepAlreadyDone(t)
    \/ PythonStep(t)
    \/ DispatchLocal(t)
    \/ DispatchEuler(t)
    \/ PollNoLog(t)
    \/ CompleteLocal(t)
    \/ CompleteEuler(t)
    \/ PollNoReport(t)
    \/ LockErrorReset(t)
    \/ DispatchUnknownScript(t)
    \/ DispatchUnknownAnalysis(t)
    \/ DispatchEulerUnparsed(t)

(***************************************************************************)
(* The scheduler's jobs, running outside the process.                      *)
(***************************************************************************)
\* A running job writes the log file of its step (the application's log),
\* leaving companion files of the project behind.
JobWritesLog(j) ==
    /\ j.phase = "running"
    /\ \E written \in LogContents, left \in Residues :
          /\ log' = [log EXCEPT ![j.task][j.step] = written]
          /\ companions' = [companions EXCEPT ![j.task] = @ \cup left]
    /\ jobs' = (jobs \ {j}) \cup {[j EXCEPT !.phase = "logged"]}
    /\ UNCHANGED <<exec_option, steps, step_iterator, done, lsf, renamed,
                   status, next_job, ncalls>>

\* A job ends: the scheduler deposits its report 'lsf.o<id>' in the working
\* directory.
JobReports(j) ==
    /\ lsf' = [lsf EXCEPT ![j.task] = @ \cup {JobNumber(j.id)}]
    /\ jobs' = jobs \ {j}
    /\ UNCHANGED <<exec_option, steps, step_iterator, done, log, renamed,
                   companions, status, next_job, ncalls>>

\* An execute_step call made by hand returns.
Returns ==
    /\ exception' = NoException
    /\ UNCHANGED <<p_ratio_tasks, driver, call, recov,
                   scripted_step>>

\* An execute_step call made by hand ends with an exception.
Raises == UNCHANGED <<p_ratio_tasks, driver, call, recov,
                   scripted_step>>

\* A job moves on while the process does something else.
Outside == UNCHANGED <<exception, p_ratio_tasks, driver, call, recov,
                   scripted_step>>

\* Any Task may be polled at any time (each disjunct is one path through
\* execute_step), and the jobs progress on their own.
Next ==
    \/ \E t \in Tasks : StepAlreadyDone(t) /\ Returns
    \/ \E t \in Tasks : PythonStep(t) /\ Returns
    \/ \E t \in Tasks : DispatchLocal(t) /\ Returns
    \/ \E t \in Tasks : DispatchEuler(t) /\ Returns
    \/ \E t \in Tasks : PollNoLog(t) /\ Returns
    \/ \E t \in Tasks : CompleteLocal(t) /\ Returns
    \/ \E t \in Tasks : CompleteEuler(t) /\ Returns
    \/ \E t \in Tasks : PollNoReport(t) /\ Returns
    \/ \E t \in Tasks : LockErrorReset(t) /\ Returns
    \/ \E t \in Tasks : DispatchUnknownScript(t) /\ Raises
    \/ \E t \in Tasks : DispatchUnknownAnalysis(t) /\ Raises
    \/ \E j \in jobs : JobWritesLog(j) /\ Outside
    \/ \E j \in jobs : JobReports(j) /\ Outside

Spec == Init /\ [][Next]_vars

\* The same, with submissions whose job id is not found in the scheduler's
\* output.  The caller keeps polling and the scheduler runs every job it
\* accepted.
NextUnparsed ==
    \/ Next
    \/ \E t \in Tasks : DispatchEulerUnparsed(t) /\ Returns

SpecUnparsed ==
    /\ Init
    /\ [][NextUnparsed]_vars
    /\ WF_vars(\E t \in Tasks : execute_step(t) /\ Returns)
    /\ WF_vars(\E j \in jobs : JobWritesLog(j) /\ Outside)
    /\ WF_vars(\E j \in jobs : JobReports(j) /\ Outside)

(***************************************************************************)
(* Construction: Tasks are created empty and the caller appends Steps to   *)
(* them, through add_python_step, add_analysis_step, or by constructing a  *)
(* Step (or ScriptedStep) and appending it to Task.steps.                  *)
(***************************************************************************)
\* variation_parameters_listing['project_listing']: the projects of a campaign.
project_listing == <<"project_1", "project_2">>

\* One Task per project (create_p_ratio_tasks).
Projects == {project_listing[k] : k \in DOMAIN project_listing}

\* A step_type that is none of the three.
UnknownKind == "Other"

\* A Step constructor that accepts any step_type.
StepTypeHandled_any(step_type) == TRUE

\* Step.__init__, lines 55-57: the test before `raise Exception`.
StepTypeHandled(step_type) == step_type \in StepTypes

\* Task.__init__ for every project: no steps yet.
InitBuild ==
    /\ \E option \in ExecOptions \cup {UnknownOption} :
          exec_option = [t \in Projects |-> option]
    /\ steps = [t \in Projects |-> << >>]
    /\ log = [t \in Projects |-> << >>]
    /\ ncalls = [t \in Projects |-> << >>]
    /\ step_iterator = [t \in Projects |-> 0]
    /\ done = [t \in Projects |-> FALSE]
    /\ lsf = [t \in Projects |-> {}]
    /\ renamed = [t \in Projects |-> {}]
    /\ companions = [t \in Projects |-> {}]
    /\ status = << >>
    /\ jobs = {}
    /\ next_job = 1
    /\ Elsewhere

\* task.steps.append(Step(step_type=...)): the Step is constructed first, and
\* the list is left as it was when the constructor raises.
AppendStep(t, step_type) ==
    /\ Len(steps[t]) < MaxSteps
    /\ IF StepTypeHandled(step_type)
       THEN /\ steps' = [steps EXCEPT ![t] = Append(@, Step(step_type))]
            /\ log' = [log EXCEPT ![t] = Append(@, Absent)]
            /\ ncalls' = [ncalls EXCEPT ![t] = Append(@, 0)]
            /\ exception' = NoException
       ELSE /\ exception' = "Exception: Step type not handled"
            /\ UNCHANGED <<steps, log, ncalls>>
    /\ UNCHANGED <<exec_option, step_iterator, done, lsf, renamed, companions,
                   status, jobs, next_job, p_ratio_tasks, driver, call, recov,
                   scripted_step>>

add_python_step(t) == AppendStep(t, "Python")

add_analysis_step(t) == AppendStep(t, "Analysis")

NextBuild ==
    \/ \E t \in Projects : add_python_step(t)
    \/ \E t \in Projects : add_analysis_step(t)
    \/ \E t \in Projects, step_type \in StepTypes \cup {UnknownKind} :
          AppendStep(t, step_type)

SpecBuild == InitBuild /\ [][NextBuild]_vars

(***************************************************************************)
(* The polling driver run_p_ratio_tasks over the Tasks of all projects.    *)
(* create_p_ratio_tasks gives every project the same steps and the same    *)
(* exec_option.  The environment is the one in which the driver is meant   *)
(* to end: every run writes its log, without the lock error, and every     *)
(* submission yields a job, which writes its log and then reports.         *)
(***************************************************************************)
InitDriver ==
    /\ \E option \in ExecOptions, kinds \in TaskConfigs({1}) :
          /\ exec_option = [t \in Projects |-> option]
          /\ steps = [t \in Projects |->
                        [i \in DOMAIN kinds[1] |-> Step(kinds[1][i])]]
          /\ log = [t \in Projects |-> [i \in DOMAIN kinds[1] |-> Absent]]
          /\ ncalls = [t \in Projects |-> [i \in DOMAIN kinds[1] |-> 0]]
    /\ step_iterator = [t \in Projects |-> 0]
    /\ done = [t \in Projects |-> FALSE]
    /\ lsf = [t \in Projects |-> {}]
    /\ renamed = [t \in Projects |-> {}]
    /\ companions = [t \in Projects |-> {}]
    /\ status = << >>
    /\ jobs = {}
    /\ next_job = 1
    /\ exception = NoException
    /\ p_ratio_tasks = project_listing
    /\ driver = [DriverIdle EXCEPT !.pc = "while"]
    /\ call = NoCall
    /\ recov = NoRecovery
    /\ scripted_step = NoScriptedStep

\* The environment in which the driver is meant to end.
LogsAndReportsArrive ==
    \A t \in Tasks : \A i \in DOMAIN steps[t] :
        /\ companions[t] = {}
        /\ log[t][i] \in {Absent, "clean"}
        /\ steps[t][i].job_id # NoJobId
        /\ (exec_option[t] = "local" /\ steps[t][i].in_progress
                /\ ~steps[t][i].done) => log[t][i] # Absent

\* list.remove(task): the list without its first element equal to task.
remove(list, task) ==
    LET k == CHOOSE k \in DOMAIN list :
                 list[k] = task /\ \A h \in 1..(k - 1) : list[h] # task
    IN  [h \in 1..(Len(list) - 1) |-> IF h < k THEN list[h] ELSE list[h + 1]]

\* Line 590, `while self.p_ratio_tasks:`, at the first entry and after each
\* time.sleep(2): an empty list ends the driver, otherwise the for loop
\* starts at the head of the list.
DriverWhile ==
    /\ driver.pc \in {"while", "sleep"}
    /\ IF p_ratio_tasks = << >>
       THEN driver' = [driver EXCEPT !.pc = "returned"]
       ELSE driver' = [pc |-> "for", index |-> 0,
                       live |-> {p_ratio_tasks[k] : k \in DOMAIN p_ratio_tasks}
                                  \cap {t \in Tasks : ~done[t]},
                       polled |-> << >>]
    /\ UNCHANGED <<p_ratio_tasks, exception, call, recov,
                   scripted_step>>
    /\ UNCHANGED task_vars

\* DriverCall without the test of line 594: a done Task is polled as well.
DriverCall_unguarded ==
    /\ driver.pc = "for"
    /\ driver.index < Len(p_ratio_tasks)
    /\ LET task == p_ratio_tasks[driver.index + 1] IN
          /\ execute_step(task)
          /\ driver' = [driver EXCEPT !.index = @ + 1,
                                      !.polled = Append(@, task)]
    /\ exception' = NoException
    /\ LogsAndReportsArrive'
    /\ UNCHANGED <<p_ratio_tasks, call, recov,
                   scripted_step>>

\* Lines 593-596: the list iterator yields the element at its index, which
\* is not done: execute_step is called on it.
DriverCall ==
    /\ driver.pc = "for"
    /\ driver.index < Len(p_ratio_tasks)
    /\ LET task == p_ratio_tasks[driver.index + 1] IN
          /\ ~done[task]
          /\ execute_step(task)
          /\ driver' = [driver EXCEPT !.index = @ + 1,
                                      !.polled = Append(@, task)]
    /\ exception' = NoException
    /\ LogsAndReportsArrive'
    /\ UNCHANGED <<p_ratio_tasks, call, recov,
                   scripted_step>>

\* DriverRemove leaving the list as it is.
DriverRemove_keeps ==
    /\ driver.pc = "for"
    /\ driver.index < Len(p_ratio_tasks)
    /\ done[p_ratio_tasks[driver.index + 1]]
    /\ driver' = [driver EXCEPT !.index = @ + 1]
    /\ UNCHANGED <<p_ratio_tasks, exception, call, recov,
                   scripted_step>>
    /\ UNCHANGED task_vars

\* Lines 593-598: the element at the iterator's index is done and is removed
\* from the list being iterated; the iterator's index moves on all the same.
DriverRemove ==
    /\ driver.pc = "for"
    /\ driver.index < Len(p_ratio_tasks)
    /\ LET task == p_ratio_tasks[driver.index + 1] IN
          /\ done[task]
          /\ p_ratio_tasks' = remove(p_ratio_tasks, task)
    /\ driver' = [driver EXCEPT !.index = @ + 1]
    /\ UNCHANGED <<exception, call, recov,
                   scripted_step>>
    /\ UNCHANGED task_vars

\* Lines 593-599: the iterator's index has reached the end of the list; the
\* round is over and the driver sleeps.
DriverSleep ==
    /\ driver.pc = "for"
    /\ driver.index >= Len(p_ratio_tasks)
    /\ driver' = [driver EXCEPT !.pc = "sleep"]
    /\ UNCHANGED <<p_ratio_tasks, exception, call, recov,
                   scripted_step>>
    /\ UNCHANGED task_vars

\* A job that writes its log without the lock error.
DriverJobWritesLog ==
    \E j \in jobs : JobWritesLog(j) /\ Outside /\ LogsAndReportsArrive'

\* A job that has written its log ends.
DriverJobReports ==
    \E j \in jobs : j.phase = "logged" /\ JobReports(j) /\ Outside

NextDriver ==
    \/ DriverWhile
    \/ DriverCall
    \/ DriverRemove
    \/ DriverSleep
    \/ DriverJobWritesLog
    \/ DriverJobReports

\* The driver is a sequential program that keeps running, and the scheduler
\* runs every job it accepted.
SpecDriver ==
    /\ InitDriver
    /\ [][NextDriver]_vars
    /\ WF_vars(DriverWhile \/ DriverCall \/ DriverRemove \/ DriverSleep)
    /\ WF_vars(DriverJobWritesLog)
    /\ WF_vars(DriverJobReports)

(***************************************************************************)
(* The dispatch functions execute_script, run_job and run_euler_job, each  *)
(* called on its own.  A call is recorded with its arguments, the file and *)
(* process operations it made, in order, and its result.  A string is the  *)
(* sequence of the pieces it was concatenated from, every space a piece of *)
(* its own; an optional argument is None or a one-element sequence.        *)
(***************************************************************************)
MaxCores == 12

None == << >>

Some(x) == <<x>>

Digits == <<"0", "1", "2", "3", "4", "5", "6", "7", "8", "9">>

\* A str() that keeps only the last digit.
str_units(n) == <<Digits[(n % 10) + 1]>>

RECURSIVE str(_)
\* str(n) of a non-negative int: its decimal digits.
str(n) == IF n < 10 THEN <<Digits[n + 1]>>
                    ELSE str(n \div 10) \o <<Digits[(n % 10) + 1]>>

\* SimulationResources: cores, time as "H:MM", RAM and scratch or None.
Resources ==
    [cores : 1..MaxCores,
     time : {str(h) \o <<":">> \o m : h \in {0, 4, 10}, m \in {<<"0", "0">>, <<"1", "5">>}},
     RAM : {None, Some(5000)},
     scratch : {None, Some(20)}]

\* Arguments of a dispatch: what to run, where, and on which backend.
Payloads ==
    [script_name : {None, Some("script.py")},
     setup_to_analyse : {None, Some("Setup1")},
     design_name : {None, Some("Design1")},
     sub_folder : {None, Some("project_1")},
     exec_option : ExecOptions \cup {UnknownOption},
     resources_requested : Resources]

\* The process's working directory.
cwd == "."

name_bash_file == "temporary_bash_file.sh"

\* Lines 107-111 of run_euler_job: a script together with a setup or design.
conflicting(a) ==
    a.script_name # None /\ (a.setup_to_analyse # None \/ a.design_name # None)

\* Lines 124-138: bsub with its resource flags.
bsub(r) ==
    <<"bsub", " ", "-n", " ">> \o str(r.cores) \o <<" ", "-W", " ">> \o r.time \o <<" ">>
    \o (IF r.RAM # None
           THEN <<"-R", " ", "\"rusage[mem=">> \o str(r.RAM[1]) \o <<"]\"", " ">>
           ELSE << >>)
    \o (IF r.scratch # None
           THEN <<"-R", " ", "\"rusage[scratch=">> \o str(r.scratch[1]) \o <<"]\"", " ">>
           ELSE << >>)

\* Line 148: the analysis gets the multi-core options.
multi_core(a) ==
    /\ a.script_name = None
    /\ a.setup_to_analyse # None /\ a.design_name # None
    /\ a.resources_requested.cores > 1

\* Lines 140-162: the command after bsub.
command(a) ==
    IF a.script_name # None
    THEN <<"ansysedt", " ", "-features=beta", " ", "-ng", " ", "-runscriptandexit",
           " ", a.script_name[1], " ", "project.aedt", "\n">>
    ELSE IF a.setup_to_analyse # None /\ a.design_name # None
    THEN <<"'ansysedt", " ", "-monitor", " ", "-distributed", " ", "-ng", " ",
           "-logfile", " ", "job.log", " ">>
         \o (IF multi_core(a)
                THEN <<"-batchoptions", " ", "batch.cfg", " ", "-machinelist", " ",
                       "numcores=">> \o str(a.resources_requested.cores)
                     \o <<" ", "-auto", " ", "NumDistributedVariations=">>
                     \o str(a.resources_requested.cores) \o <<" ">>
                ELSE << >>)
         \o <<"-batchsolve", " ", "\"", a.design_name[1], ":", a.setup_to_analyse[1],
              "\"", " ", "project.aedt", "'\n">>
    ELSE << >>

\* The folder of the submission script, and the working directory of the job.
folder(a) == IF a.sub_folder # None THEN a.sub_folder[1] ELSE cwd

\* Lines 113-122: the submission script is opened and its first line written.
open_bash(a) ==
    <<[op |-> "open", file |-> name_bash_file, in |-> folder(a), text |-> << >>],
      [op |-> "write", file |-> name_bash_file, in |-> folder(a),
       text |-> <<"module", " ", "load", " ", "ansys_em/19.5\n">>]>>

\* Lines 149-154: the multi-core configuration, opened as 'batch.cfg ' in the
\* process's working directory.
write_batch_cfg(a) ==
    IF multi_core(a)
    THEN <<[op |-> "open", file |-> "batch.cfg ", in |-> cwd, text |-> << >>],
           [op |-> "write", file |-> "batch.cfg ", in |-> cwd,
            text |-> <<"$begin 'Config'\n">>],
           [op |-> "close", file |-> "batch.cfg ", in |-> cwd, text |-> << >>]>>
    ELSE << >>

\* Lines 164-179: the command line is written, the script closed, made
\* executable and run in the sub folder.
submit(a) ==
    <<[op |-> "write", file |-> name_bash_file, in |-> folder(a),
       text |-> bsub(a.resources_requested) \o command(a)],
      [op |-> "close", file |-> name_bash_file, in |-> folder(a), text |-> << >>],
      [op |-> "chmod", file |-> name_bash_file, in |-> folder(a), text |-> << >>],
      [op |-> "Popen", file |-> name_bash_file, in |-> folder(a), text |-> << >>]>>

\* run_euler_job with the conflict test after the files are written.
run_euler_job_checks_late(a) ==
    IF conflicting(a)
    THEN [events |-> open_bash(a) \o write_batch_cfg(a),
          raised |-> "Exception: Cannot run a script and analyse a setup simultaneously"]
    ELSE [events |-> open_bash(a) \o write_batch_cfg(a) \o submit(a),
          raised |-> NoException]

\* run_euler_job, lines 102-181: its operations in order, or the exception.
run_euler_job(a) ==
    IF conflicting(a)
    THEN [events |-> << >>,
          raised |-> "Exception: Cannot run a script and analyse a setup simultaneously"]
    ELSE [events |-> open_bash(a) \o write_batch_cfg(a) \o submit(a),
          raised |-> NoException]

\* subprocess.call of the application (local_script_execution, run_local_job).
local_execution(a) ==
    <<[op |-> "subprocess.call", file |-> "ansysedt", in |-> folder(a), text |-> << >>]>>

\* The result of a call that raised.
Raised == [kind |-> "raised"]

\* A call of `function` with arguments a made the operations r.events and
\* returned `result`, or raised r.raised.
Called(function, a, r, result) ==
    /\ call' = [function |-> function, args |-> a, events |-> r.events,
                result |-> IF r.raised = NoException THEN result ELSE Raised]
    /\ exception' = r.raised
    /\ UNCHANGED <<task_vars, p_ratio_tasks, driver, recov,
                   scripted_step>>

\* Lines 176-183: the scheduler's answer is parsed for the job id, which it
\* holds or not.
Submitted(function, a) ==
    \E job_id \in {JobNumber(1), NoJobId} :
        Called(function, a, run_euler_job(a), job_id)

\* execute_script, Execute_Script.py lines 44-62.
execute_script(a) ==
    IF a.exec_option = "local"
    THEN Called("execute_script", a,
                [events |-> local_execution(a), raised |-> NoException],
                JobNumber(0))
    ELSE IF a.exec_option = "euler"
    THEN Submitted("execute_script", a)
    ELSE Called("execute_script", a,
                [events |-> << >>,
                 raised |-> "Exception: execution option not handled"],
                Raised)

\* run_job, Run_Job.py lines 23-36: `return` only in the 'euler' branch.
run_job(a) ==
    IF a.exec_option = "local"
    THEN Called("run_job", a,
                [events |-> local_execution(a), raised |-> NoException], NoneId)
    ELSE IF a.exec_option = "euler"
    THEN Submitted("run_job", a)
    ELSE Called("run_job", a, [events |-> << >>, raised |-> NoException], NoneId)

\* The arguments of a call about to be made; there is no Task.
InitDispatch ==
    /\ InitTasks({})
    /\ exception = NoException
    /\ p_ratio_tasks = << >>
    /\ driver = DriverIdle
    /\ call \in {[function |-> NoCall.function, args |-> a] : a \in Payloads}
    /\ recov = NoRecovery
    /\ scripted_step = NoScriptedStep

\* execute_step passes a script to execute_script, a design and setup to
\* run_job; run_euler_job accepts any combination.
NextDispatch ==
    \/ /\ call.function = NoCall.function
       /\ call.args.script_name # None
       /\ call.args.setup_to_analyse = None /\ call.args.design_name = None
       /\ execute_script(call.args)
    \/ /\ call.function = NoCall.function
       /\ call.args.script_name = None
       /\ call.args.setup_to_analyse # None /\ call.args.design_name # None
       /\ run_job(call.args)
    \/ /\ call.function = NoCall.function
       /\ call.args.exec_option = "euler"
       /\ Submitted("run_euler_job", call.args)

SpecDispatch == InitDispatch /\ [][NextDispatch]_vars

\* What the operations have written to a file, in order.
RECURSIVE written(_, _, _)
written(events, file, in) ==
    IF events = << >> THEN << >>
    ELSE (IF Head(events).op = "write" /\ Head(events).file = file
             /\ Head(events).in = in
             THEN Head(events).text ELSE << >>)
         \o written(Tail(events), file, in)

\* line.split(' '), with `word` the pieces of the word being read.
RECURSIVE split(_, _)
split(line, word) ==
    IF line = << >> THEN <<word>>
    ELSE IF Head(line) = " " THEN <<word>> \o split(Tail(line), << >>)
    ELSE split(Tail(line), Append(word, Head(line)))

\* The word after the first word `flag`, or None.
flag_value(line, flag) ==
    LET words == split(line, << >>)
        at == {k \in 1..(Len(words) - 1) : words[k] = <<flag>>}
    IN  IF at = {} THEN None
        ELSE words[(CHOOSE k \in at : \A h \in at : k <= h) + 1]

\* int(word) of a word of decimal digits.
RECURSIVE int(_)
int(word) ==
    IF word = << >> THEN 0
    ELSE int(SubSeq(word, 1, Len(word) - 1)) * 10
         + (CHOOSE d \in 0..9 : Digits[d + 1] = word[Len(word)])

(***************************************************************************)
(* The recovery actions, each invoked on its own, twice in a row, in the   *)
(* working directory of a Task whose step has been submitted as job 1.     *)
(* The directory starts with any set of the files the actions look at.     *)
(***************************************************************************)
RecoveryActions == {"clean_project_files", "os.rename", "detect_errors_from_log_file"}

\* The files of Task t's working directory.
files(t) ==
    [companions |-> companions[t], log |-> log[t], lsf |-> lsf[t],
     renamed |-> renamed[t]]

InitRecovery ==
    /\ exec_option = [t \in {1} |-> "euler"]
    /\ steps = [t \in {1} |-> <<[Step("Script") EXCEPT !.in_progress = TRUE,
                                                       !.job_id = JobNumber(1)]>>]
    /\ step_iterator = [t \in {1} |-> 0]
    /\ done = [t \in {1} |-> FALSE]
    /\ log \in [{1} -> {<<content>> : content \in {Absent} \cup LogContents}]
    /\ lsf \in [{1} -> {{}, {JobNumber(1)}}]
    /\ renamed \in [{1} -> {{}, {1}}]
    /\ companions \in [{1} -> SUBSET {file_to_check[k] : k \in DOMAIN file_to_check}]
    /\ ncalls = [t \in {1} |-> <<1>>]
    /\ status = << >>
    /\ jobs = {}
    /\ next_job = 2
    /\ exception = NoException
    /\ p_ratio_tasks = << >>
    /\ driver = DriverIdle
    /\ call = NoCall
    /\ recov \in {[action |-> a, count |-> 0, failed |-> << >>, once |-> files(1)] :
                    a \in RecoveryActions}
    /\ scripted_step = NoScriptedStep

\* One more invocation of the action has ended, with or without an exception;
\* the files after the first invocation are remembered.
Invoked(t) ==
    /\ recov' = [recov EXCEPT !.count = @ + 1,
                              !.failed = Append(@, exception' # NoException),
                              !.once = IF recov.count = 0 THEN files(t)' ELSE @]
    /\ UNCHANGED <<exec_option, steps, step_iterator, done, jobs, next_job,
                   ncalls, status, p_ratio_tasks, driver, call, scripted_step>>

\* os.rename of the report without the test of line 285.
rename_report_unguarded(t) ==
    /\ lsf' = [lsf EXCEPT ![t] = @ \ {current_step(t).job_id}]
    /\ renamed' = IF report_exists(t)
                     THEN [renamed EXCEPT ![t] = @ \cup {step_iterator[t] + 1}]
                     ELSE renamed
    /\ exception' = IF report_exists(t) THEN NoException ELSE "FileNotFoundError"

\* Lines 285 and 295-299: the report, if it exists, is renamed after the log.
rename_report(t) ==
    /\ lsf' = [lsf EXCEPT ![t] = @ \ {current_step(t).job_id}]
    /\ renamed' = IF report_exists(t)
                     THEN [renamed EXCEPT ![t] = @ \cup {step_iterator[t] + 1}]
                     ELSE renamed
    /\ exception' = NoException

\* clean_project_files invoked on the directory.
RecoverClean(t) ==
    /\ recov.action = "clean_project_files"
    /\ recov.count < 2
    /\ companions' = [companions EXCEPT ![t] = clean_project_files(t)]
    /\ exception' = NoException
    /\ UNCHANGED <<log, lsf, renamed>>
    /\ Invoked(t)

\* The report rename invoked on the directory.
RecoverRename(t) ==
    /\ recov.action = "os.rename"
    /\ recov.count < 2
    /\ rename_report(t)
    /\ UNCHANGED <<log, companions>>
    /\ Invoked(t)

\* detect_errors_from_log_file invoked on the directory: open() raises when
\* the log is not there; no file is changed.
RecoverScan(t) ==
    /\ recov.action = "detect_errors_from_log_file"
    /\ recov.count < 2
    /\ exception' = IF log[t][step_iterator[t] + 1] = Absent
                       THEN "FileNotFoundError" ELSE NoException
    /\ UNCHANGED <<log, lsf, renamed, companions>>
    /\ Invoked(t)

NextRecovery ==
    \/ \E t \in Tasks : RecoverClean(t)
    \/ \E t \in Tasks : RecoverRename(t)
    \/ \E t \in Tasks : RecoverScan(t)

SpecRecovery == InitRecovery /\ [][NextRecovery]_vars

(***************************************************************************)
(* Properties.                                                             *)
(***************************************************************************)
\* The last step of a Task.
last_step(t) == steps[t][Len(steps[t])]

\* Step i of Task t has been dispatched (or its closure invoked) at least once.
Started(t, i) == ncalls[t][i] > 0

\* Step i of Task t is Dispatched: in progress and not done.
Dispatched(t, i) == steps[t][i].in_progress /\ ~steps[t][i].done

\* C1: across every step of the system (every execute_step call and every
\* change made by the jobs) the cursor of every Task is at least what it was.
C1_CursorNeverDecreases ==
    [][\A t \in Tasks : step_iterator'[t] >= step_iterator[t]]_vars

\* C1 witness: a cursor that has moved.
C1_Witness == \E t \in Tasks : step_iterator[t] > 0

\* C2: once a step is done, no step of the system makes it not done, changes
\* its in_progress flag, or dispatches it again.
C2_DoneIsTerminal ==
    [][\A t \in Tasks : \A i \in DOMAIN steps[t] :
          steps[t][i].done =>
             /\ steps'[t][i].done
             /\ steps'[t][i].in_progress = steps[t][i].in_progress
             /\ ncalls'[t][i] = ncalls[t][i]]_vars

\* C2 witness: a done step that execute_step has visited again (the cursor
\* moved past it, or the Task became done on it).
C2_Witness ==
    \E t \in Tasks : steps[t][1].done /\ (step_iterator[t] > 0 \/ done[t])

\* C3 (as claimed): no step ever has two external executions in flight, an
\* execution in flight being a job that has not yet delivered its report.
C3_OneExecutionPerStep ==
    \A t \in Tasks : \A i \in DOMAIN steps[t] :
        Cardinality({j \in jobs : j.task = t /\ j.step = i}) <= 1

\* C4 (as claimed): a step that has been dispatched (or whose closure has
\* been invoked) is preceded only by steps that are marked done.
C4_StrictSequence ==
    \A t \in Tasks : \A i \in DOMAIN steps[t] :
        (i > 1 /\ Started(t, i)) => steps[t][i - 1].done

C6_PassedStepsAreDone ==
    \A t \in Tasks :
        /\ \A i \in DOMAIN steps[t] : i <= step_iterator[t] => steps[t][i].done
        /\ done[t] => \A i \in DOMAIN steps[t] : steps[t][i].done

C8_DoneOnlyWithReport ==
    [][\A t \in Tasks :
          exec_option[t] = "euler" =>
             /\ \A i \in DOMAIN steps[t] :
                   (steps'[t][i].done /\ ~steps[t][i].done) =>
                       steps[t][i].job_id \in lsf[t]
             /\ LET i == step_iterator[t] + 1 IN
                (/\ execute_step(t)
                 /\ Dispatched(t, i)
                 /\ log[t][i] \in {"clean", "error"}
                 /\ steps[t][i].job_id \notin lsf[t]) =>
                    /\ steps'[t] = steps[t]
                    /\ step_iterator'[t] = step_iterator[t]
                    /\ done'[t] = done[t]]_vars

\* C8 witness: a cluster step that was marked done (its report renamed).
C8_Witness ==
    \E t \in Tasks :
        exec_option[t] = "euler" /\ current_step(t).done /\ renamed[t] # {}

\* C9: while the current step is Dispatched the Task is not done and no later
\* step has been started; and any step of the system that starts and ends
\* without the log file leaves the cursor, the done flag, the steps and the
\* number of dispatches of the Task unchanged.
C9_NoLogNoProgress ==
    /\ [](\A t \in Tasks :
            LET i == step_iterator[t] + 1 IN
            Dispatched(t, i) =>
               /\ ~done[t]
               /\ \A k \in DOMAIN steps[t] : k > i => ~Started(t, k))
    /\ [][\A t \in Tasks :
            LET i == step_iterator[t] + 1 IN
            (Dispatched(t, i) /\ log[t][i] = Absent /\ log'[t][i] = Absent) =>
               /\ done'[t] = done[t]
               /\ step_iterator'[t] = step_iterator[t]
               /\ steps'[t] = steps[t]
               /\ ncalls'[t] = ncalls[t]]_vars

\* C9 witness: the second step of a Task, dispatched and polled without a
\* log file.
C9_Witness ==
    \E t \in Tasks :
        /\ step_iterator[t] = 1
        /\ Dispatched(t, 2)
        /\ log[t][2] = Absent
        /\ status = << >>

\* The state transitions that a step of the system makes on Task t.
Transitions(t) ==
    (IF step_iterator'[t] # step_iterator[t] \/ done'[t] # done[t]
        THEN {"cursor advance or Task done"} ELSE {})
    \cup (IF \E i \in DOMAIN steps[t] :
                /\ ~steps[t][i].in_progress /\ ~steps[t][i].done
                /\ steps'[t][i].in_progress
        THEN {"Pending to Dispatched"} ELSE {})
    \cup (IF \E i \in DOMAIN steps[t] : ~steps[t][i].done /\ steps'[t][i].done
        THEN {"Dispatched to Done"} ELSE {})
    \cup (IF \E i \in DOMAIN steps[t] :
                steps[t][i].in_progress /\ ~steps'[t][i].in_progress
        THEN {"Dispatched to Pending"} ELSE {})

\* C10: every step of the system, so every execute_step call, makes at most
\* one of the four state transitions on a Task, and on at most one step.
C10_OneTransitionPerCall ==
    [][\A t \in Tasks :
          /\ Cardinality(Transitions(t)) <= 1
          /\ Cardinality({i \in DOMAIN steps[t] : steps'[t][i] # steps[t][i]}) <= 1]_vars

\* C10 witness: a call has run a 'Python' step and moved the cursor, and the
\* next step is still pending.
C10_Witness ==
    \E t \in Tasks :
        /\ step_iterator[t] = 1
        /\ steps[t][1].step_type = "Python"
        /\ Started(t, 1)
        /\ status # << >>
        /\ status[1] = "Executing python step"

\* C11: when the closure of a 'Python' step raises, the exception does not
\* leave execute_step, "Error for optimization plotting" is written to the
\* status, the step is marked done, and the Task goes on to the following
\* step (or is done after its last step).
C11_PythonExceptionMarksDone ==
    [][\A t \in Tasks :
          (PythonStep(t) /\ status'[Len(status')] = "Error for optimization plotting")
          => /\ exception' = NoException
             /\ steps'[t][step_iterator[t] + 1].done
             /\ \/ step_iterator'[t] = step_iterator[t] + 1
                \/ done'[t]]_vars

\* C16: with an exec_option other than 'local' and 'euler' no step is ever
\* marked in progress: the dispatch raises first, for 'Script' and for
\* 'Analysis' steps alike.
C16_UnknownBackendNeverDispatched ==
    \A t \in Tasks :
        exec_option[t] \notin ExecOptions
        => \A i \in DOMAIN steps[t] : ~steps[t][i].in_progress

\* C17: constructing a Step with a step_type that is none of 'Script',
\* 'Analysis', 'Python' raises and appends nothing, so every Step held by a
\* Task has one of the three kinds.
C17_UnknownKindRejected ==
    /\ [](\A t \in Tasks : \A i \in DOMAIN steps[t] :
              steps[t][i].step_type \in StepTypes)
    /\ [][\A t \in Tasks :
              AppendStep(t, UnknownKind)
              => (exception' # NoException /\ steps' = steps)]_vars

\* C17 witness: the constructor has just raised on a Task that already holds
\* a step.
C17_Witness ==
    /\ exception = "Exception: Step type not handled"
    /\ \E t \in Tasks : Len(steps[t]) > 0

\* C12: when a round of run_p_ratio_tasks is over, execute_step has been
\* called exactly once on every Task that was in the list and not done when
\* the round started, and on no other Task.
C12_EveryLiveTaskPolledOnce ==
    driver.pc = "sleep"
    => /\ \A t \in driver.live :
             Cardinality({k \in DOMAIN driver.polled : driver.polled[k] = t}) = 1
       /\ \A k \in DOMAIN driver.polled : driver.polled[k] \in driver.live

C14_LocalDispatchReturnsZero ==
    (call.function \in {"execute_script", "run_job"}
        /\ call.args.exec_option = "local")
    => /\ Len(call.events) = 1
       /\ call.events[1].op = "subprocess.call"
       /\ call.result = JobNumber(0)

\* C15: run_euler_job with a script together with a setup or a design raises
\* before any operation: nothing is opened, written or launched.
C15_ConflictRejectedFirst ==
    (call.function # "none" /\ conflicting(call.args))
    => /\ exception # NoException
       /\ call.result = Raised
       /\ call.events = << >>

\* C15 witness: a conflicting multi-core call in a sub folder has raised.
C15_Witness ==
    /\ call.function = "run_euler_job"
    /\ call.args.script_name # None
    /\ call.args.setup_to_analyse # None /\ call.args.design_name # None
    /\ call.args.sub_folder # None
    /\ call.args.resources_requested.cores > 1
    /\ exception # NoException

\* C19: in the submission script of every cluster dispatch that was launched,
\* the word after '-n' reads back as the requested cores and the word after
\* '-W' as the requested time, with or without RAM and scratch.
C19_ResourceFlagsRoundTrip ==
    (call.function # "none" /\ \E k \in DOMAIN call.events : call.events[k].op = "Popen")
    => LET script == written(call.events, name_bash_file, folder(call.args)) IN
       /\ flag_value(script, "-n") # None
       /\ int(flag_value(script, "-n")) = call.args.resources_requested.cores
       /\ flag_value(script, "-W") = call.args.resources_requested.time

\* C19 witness: a launched dispatch with two-digit cores, scratch and no RAM.
C19_Witness ==
    /\ call.function # "none"
    /\ \E k \in DOMAIN call.events : call.events[k].op = "Popen"
    /\ call.args.resources_requested.cores >= 10
    /\ call.args.resources_requested.RAM = None
    /\ call.args.resources_requested.scratch # None

\* C20: a cluster dispatch writes a multi-core configuration file if and only
\* if it is an analysis on more than one core; then the file that the command
\* names after '-batchoptions', in the folder where the job runs, has been
\* written before the command line is, and the command holds
\* '-machinelist numcores=<cores>'.
C20_BatchConfigBeforeCommand ==
    (call.function # "none" /\ \E k \in DOMAIN call.events : call.events[k].op = "Popen")
    => LET a == call.args
           script == written(call.events, name_bash_file, folder(a))
           others == {k \in DOMAIN call.events :
                         call.events[k].op = "write"
                         /\ call.events[k].file # name_bash_file}
           line == CHOOSE k \in DOMAIN call.events :
                       /\ call.events[k].op = "write"
                       /\ call.events[k].text = bsub(a.resources_requested) \o command(a)
       IN  /\ others # {} <=> multi_core(a)
           /\ multi_core(a) =>
                 /\ flag_value(script, "-machinelist")
                        = <<"numcores=">> \o str(a.resources_requested.cores)
                 /\ \E k \in others :
                       /\ k < line
                       /\ <<call.events[k].file>> = flag_value(script, "-batchoptions")
                       /\ call.events[k].in = folder(a)

UnparsedStepHasLogAndReport ==
    \E t \in Tasks :
        /\ step_iterator[t] = 0 /\ ncalls[t][1] = 1
        /\ current_step(t).job_id = NoJobId
        /\ current_step(t).in_progress /\ ~current_step(t).done
        /\ log[t][step_iterator[t] + 1] \in {"clean", "error"}
        /\ lsf[t] # {}
        /\ jobs = {}

\* C22: a step dispatched without a job id in the scheduler's output is
\* still completed once its log and its report have appeared: the step
\* becomes done, and with it the Task can go on.
C22_UnparsedStepCompletes ==
    UnparsedStepHasLogAndReport ~> (\A t \in Tasks : current_step(t).job_id # NoJobId
                                                     \/ current_step(t).done)

\* The step at the cursor is pending on a backend that execute_step handles.
Pending(t) ==
    /\ ~done[t]
    /\ ~current_step(t).done /\ ~current_step(t).in_progress
    /\ current_step(t).step_type # "Python"
    /\ exec_option[t] \in ExecOptions

C24_JobIdIffClusterDispatch ==
    \A t \in Tasks : \A i \in DOMAIN steps[t] :
        steps[t][i].job_id # NoneId
        <=> /\ exec_option[t] = "euler"
            /\ steps[t][i].step_type # "Python"
            /\ Started(t, i)

\* C24 witness: on the cluster, a 'Python' step has run without a job id
\* and the step after it holds the id of its job.
C24_Witness ==
    \E t \in Tasks :
        /\ exec_option[t] = "euler"
        /\ Len(steps[t]) > 1
        /\ steps[t][1].step_type = "Python" /\ Started(t, 1)
        /\ steps[t][1].job_id = NoneId
        /\ steps[t][Len(steps[t])].job_id \notin {NoneId, NoJobId}

C26_NoStaleLogAfterDispatch ==
    \A t \in Tasks : \A i \in DOMAIN steps[t] :
        (steps[t][i].in_progress \/ steps[t][i].done \/ Started(t, i))
        => log[t][i] \notin StaleContents

\* C26 witness: a dispatch on the cluster has just removed a log file that
\* was there before, and the step is in progress without a log.
C26_Witness ==
    \E t \in Tasks :
        /\ exec_option[t] = "euler"
        /\ current_step(t).in_progress
        /\ log[t][step_iterator[t] + 1] = Absent
        /\ status # << >>
        /\ status[1] = "Pre existing log file removed"

\* C27: a lock-error reset clears in_progress, discards the recorded job id
\* and changes nothing else of the step, nor the cursor.
C27_ResetDiscardsJobId ==
    [][\A t \in Tasks :
          LET i == step_iterator[t] + 1 IN
          LockErrorReset(t)
          => /\ steps'[t][i] = [steps[t][i] EXCEPT !.in_progress = FALSE,
                                                   !.job_id = NoneId]
             /\ step_iterator'[t] = step_iterator[t]]_vars

\* C28: an execute_step call that ends with an exception leaves the Task,
\* its steps and the files of the working directory as they were.
C28_FatalErrorWritesNothing ==
    [][((\E t \in Tasks : execute_step(t)) /\ exception' # NoException)
          => UNCHANGED <<steps, step_iterator, done, log, lsf, renamed,
                         companions>>]_vars

(***************************************************************************)
(* The job id in the scheduler's answer: find_job_id_from_exec_output.     *)
(***************************************************************************)
\* The longest scheduler answer, in characters.
MaxOutput == 6

\* The characters of an answer: those of the marker word, a space, a digit.
Characters == {"J", "o", "b", " ", "7"}

\* The marker word.
Job == <<"J", "o", "b">>

\* Every answer of at most MaxOutput characters.
Outputs == UNION {[1..n -> Characters] : n \in 0..MaxOutput}

\* The loop of string_to_word_list: a word is appended when a space is read,
\* and the word being read when the string ends is not appended.
RECURSIVE word_list(_, _)
word_list(s, temp_word) ==
    IF s = << >> THEN << >>
    ELSE IF Head(s) # " " THEN word_list(Tail(s), Append(temp_word, Head(s)))
    ELSE <<temp_word>> \o word_list(Tail(s), << >>)

string_to_word_list(s) == word_list(s, << >>)

\* c.isdigit()
isdigit(c) == \E k \in DOMAIN Digits : Digits[k] = c

\* find_job_id_from_exec_output: the digits of the word after the last
\* 'Job' of the word list; word_list[index + 1] raises when 'Job' is the
\* last word of the list.
find_job_id_from_exec_output(output_string) ==
    LET words == string_to_word_list(output_string)
        at == {index \in DOMAIN words : words[index] = Job}
        last == CHOOSE index \in at : \A other \in at : other <= index
    IN  IF at = {}
        THEN [raised |-> NoException,
              val |-> [kind |-> NoJobId.kind, output_string |-> output_string]]
        ELSE IF Len(words) \in at
        THEN [raised |-> "IndexError", val |-> Raised]
        ELSE [raised |-> NoException,
              val |-> [kind |-> "digits",
                       digits |-> SelectSeq(words[last + 1], isdigit)]]

\* An answer about to be parsed; there is no Task.
InitJobId ==
    /\ InitTasks({})
    /\ exception = NoException
    /\ p_ratio_tasks = << >>
    /\ driver = DriverIdle
    /\ call \in {[function |-> NoCall.function, args |-> o] : o \in Outputs}
    /\ recov = NoRecovery
    /\ scripted_step = NoScriptedStep

\* The answer is parsed.
FindJobId ==
    /\ call.function = NoCall.function
    /\ LET r == find_job_id_from_exec_output(call.args)
       IN  /\ call' = [function |-> "find_job_id_from_exec_output",
                       args |-> call.args, result |-> r.val]
           /\ exception' = r.raised
    /\ UNCHANGED <<task_vars, p_ratio_tasks, driver, recov,
                   scripted_step>>

NextJobId == FindJobId

SpecJobId == InitJobId /\ [][NextJobId]_vars

\* Some word 'Job' of the answer is followed by a word that holds a digit.
IdentifierFound(output_string) ==
    LET words == split(output_string, << >>)
    IN  \E k \in 1..(Len(words) - 1) :
            /\ words[k] = Job
            /\ \E j \in DOMAIN words[k + 1] : isdigit(words[k + 1][j])

\* C21: when no job identifier can be found in the answer, the extraction
\* raises nothing and returns the diagnostic string that embeds the answer.
C21_NoIdentifierIsReported ==
    (call.function = "find_job_id_from_exec_output" /\ ~IdentifierFound(call.args))
    => /\ exception = NoException
       /\ call.result = [kind |-> NoJobId.kind, output_string |-> call.args]

(***************************************************************************)
(* The scan of a log: detect_errors_from_log_file, line by line.           *)
(***************************************************************************)
\* The most lines of a log.
MaxLines == 5

\* The lines of a log as readlines() returns them, each with its newline:
\* a line is a sequence of pieces, a marker being one piece.
LogLines ==
    {<<"x", " ", "[error]", " ", "x", "\n">>,
     <<"x", " ", "[error]", "\n">>,
     <<"[warning]", " ", "x", "\n">>,
     <<"x", "\n">>}

\* Every log of at most MaxLines lines.
Logs == UNION {[1..n -> LogLines] : n \in 0..MaxLines}

\* Lines 350-355: some word of the line is a marker that is to be reported.
report_line(line, display_warnings) ==
    LET words == string_to_word_list(line)
    IN  \E j \in DOMAIN words :
            \/ words[j] = <<"[error]">>
            \/ words[j] = <<"[warning]">> /\ display_warnings

\* Lines 357-362: the line and the three after it, up to the IndexError.
report(lines, i) == SubSeq(lines, i, IF i + 3 < Len(lines) THEN i + 3 ELSE Len(lines))

\* Lines 349-362 from line i on: what the loop writes to the status sink.
RECURSIVE scan_from(_, _, _)
scan_from(lines, i, display_warnings) ==
    IF i > Len(lines) THEN << >>
    ELSE (IF report_line(lines[i], display_warnings) THEN report(lines, i) ELSE << >>)
         \o scan_from(lines, i + 1, display_warnings)

\* Lines 347-362: the header, then the reports, in the order of the lines.
scan_log(lines, display_warnings) ==
    <<<<"Checking for errors and warnings">>>> \o scan_from(lines, 1, display_warnings)

\* A log about to be scanned, with or without warnings; there is no Task.
InitScan ==
    /\ InitTasks({})
    /\ exception = NoException
    /\ p_ratio_tasks = << >>
    /\ driver = DriverIdle
    /\ call \in {[function |-> NoCall.function,
                  args |-> [lines |-> l, display_warnings |-> w]] :
                    l \in Logs, w \in BOOLEAN}
    /\ recov = NoRecovery
    /\ scripted_step = NoScriptedStep

\* The log is scanned.
ScanLog ==
    /\ call.function = NoCall.function
    /\ call' = [function |-> "detect_errors_from_log_file", args |-> call.args,
                result |-> scan_log(call.args.lines, call.args.display_warnings)]
    /\ exception' = NoException
    /\ UNCHANGED <<task_vars, p_ratio_tasks, driver, recov,
                   scripted_step>>

NextScan == ScanLog

SpecScan == InitScan /\ [][NextScan]_vars

\* The space-separated tokens of a line, its newline left out.
tokens(line) == split(SelectSeq(line, LAMBDA c : c # "\n"), << >>)

\* The line has a marker among its tokens that is to be forwarded.
marked(line, display_warnings) ==
    \E j \in DOMAIN tokens(line) :
        \/ tokens(line)[j] = <<"[error]">>
        \/ tokens(line)[j] = <<"[warning]">> /\ display_warnings

\* The lines to forward: each marked line with the three after it.
RECURSIVE forwarded_from(_, _, _)
forwarded_from(lines, i, display_warnings) ==
    IF i > Len(lines) THEN << >>
    ELSE (IF marked(lines[i], display_warnings) THEN report(lines, i) ELSE << >>)
         \o forwarded_from(lines, i + 1, display_warnings)

\* C29: the scan forwards, for every line with '[error]' among its tokens at
\* any position, and for every line with a '[warning]' token when warnings
\* are displayed, the line and the next three or as many as exist, and
\* raises nothing.
C29_MarkedLinesForwarded ==
    call.function = "detect_errors_from_log_file"
    => /\ exception = NoException
       /\ Tail(call.result)
            = forwarded_from(call.args.lines, 1, call.args.display_warnings)

(***************************************************************************)
(* clean_project_files when a removal can fail.                            *)
(***************************************************************************)
\* The companion names clean_project_files looks for.
Companions == {file_to_check[k] : k \in DOMAIN file_to_check}

\* Lines 396-403 from the k-th name on: a name that is not there is skipped,
\* one that is there is removed, and a removal that fails raises out of
\* the loop, the names after it not looked at.
RECURSIVE clean_from(_, _, _)
clean_from(k, present, failing) ==
    IF k > Len(file_to_check)
    THEN [left |-> present, removed |-> << >>, raised |-> NoException]
    ELSE LET file_name == file_to_check[k] IN
         IF file_name \notin present
         THEN clean_from(k + 1, present, failing)
         ELSE IF file_name \in failing
         THEN [left |-> present, removed |-> << >>, raised |-> "OSError"]
         ELSE LET rest == clean_from(k + 1, present \ {file_name}, failing)
              IN  [rest EXCEPT !.removed = <<file_name>> \o @]

\* Lines 394-404: the working directory after the call: os.chdir(sub_folder)
\* before the loop, os.chdir(initial_dir) after it, which an exception out of
\* the loop skips.
cwd_after_clean(sub_folder, raised) ==
    IF sub_folder # None /\ raised # NoException THEN sub_folder[1] ELSE cwd

\* A directory with some of the companions, some of which cannot be removed,
\* cleaned from the working directory or through a sub folder; there is no
\* Task.
InitClean ==
    /\ InitTasks({})
    /\ exception = NoException
    /\ p_ratio_tasks = << >>
    /\ driver = DriverIdle
    /\ call \in {[function |-> NoCall.function,
                  args |-> [present |-> present, failing |-> failing,
                            sub_folder |-> sub_folder]] :
                    present \in SUBSET Companions, failing \in SUBSET Companions,
                    sub_folder \in {None, Some("project_1")}}
    /\ recov = NoRecovery
    /\ scripted_step = NoScriptedStep

\* clean_project_files is called on the directory.
CleanFiles ==
    /\ call.function = NoCall.function
    /\ LET r == clean_from(1, call.args.present, call.args.failing)
       IN  /\ call' = [function |-> "clean_project_files", args |-> call.args,
                       left |-> r.left, removed |-> r.removed,
                       cwd |-> cwd_after_clean(call.args.sub_folder, r.raised)]
           /\ exception' = r.raised
    /\ UNCHANGED <<task_vars, p_ratio_tasks, driver, recov,
                   scripted_step>>

NextClean == CleanFiles

SpecClean == InitClean /\ [][NextClean]_vars

\* C30: the cleanup removes nothing that is absent, and a removal that fails
\* does not abort the others: afterwards the only companions left are those
\* whose removal fails.
C30_FailureDoesNotAbortCleanup ==
    call.function = "clean_project_files"
    => /\ \A k \in DOMAIN call.removed : call.removed[k] \in call.args.present
       /\ call.left = call.args.present \cap call.args.failing

\* C31: on the cluster a step turns done only in a call that finds the
\* report of its job and renames it after the log, and while a step is done
\* no report named after its job id is in the working directory, so that no
\* later poll finds it.
C31_ReportRenamedBeforeDone ==
    /\ [](\A t \in Tasks : \A i \in DOMAIN steps[t] :
            (exec_option[t] = "euler" /\ steps[t][i].done)
            => (steps[t][i].job_id \notin lsf[t] /\ i \in renamed[t]))
    /\ [][\A t \in Tasks : \A i \in DOMAIN steps[t] :
            (exec_option[t] = "euler" /\ ~steps[t][i].done /\ steps'[t][i].done)
            => /\ steps[t][i].job_id \in lsf[t]
               /\ steps'[t][i].job_id = steps[t][i].job_id
               /\ i \notin renamed[t]
               /\ \E k \in DOMAIN status' : status'[k] = " lsf.o file renamed"]_vars

\* C31 witness: a cluster step is done and its report renamed, while the
\* report of the job of its earlier dispatch lies in the directory.
C31_Witness ==
    \E t \in Tasks :
        /\ exec_option[t] = "euler"
        /\ steps[t][1].done
        /\ 1 \in renamed[t]
        /\ lsf[t] # {}
        /\ steps[t][1].job_id \notin lsf[t]

\* The Tasks of the driver's list.
active == {p_ratio_tasks[k] : k \in DOMAIN p_ratio_tasks}

\* C32: the driver calls execute_step only on a Task that is not done; when
\* its iterator comes upon a done Task, that Task leaves the list; and no
\* Task ever enters the list.
C32_DoneTasksNotPolled ==
    [][/\ Len(driver'.polled) = Len(driver.polled) + 1
          => ~done[driver'.polled[Len(driver'.polled)]]
       /\ (driver.pc = "for" /\ driver'.pc = "for"
             /\ driver'.index = driver.index + 1
             /\ done[p_ratio_tasks[driver.index + 1]])
          => p_ratio_tasks[driver.index + 1] \notin active'
       /\ active' \subseteq active]_vars

\* C32 witness: one Task is done and off the list while another, still on
\* the list, has been polled in the current round.
C32_Witness ==
    /\ \E t \in Tasks : done[t] /\ t \notin active
    /\ driver.pc = "for"
    /\ driver.polled # << >>
    /\ \A k \in DOMAIN driver.polled : driver.polled[k] \in active

\* The driver's step is a call of execute_step on Task t.
PolledNow(t) ==
    /\ Len(driver'.polled) = Len(driver.polled) + 1
    /\ driver'.polled[Len(driver'.polled)] = t

\* C33: a step's done, in_progress and job_id change only in an execute_step
\* call on its own Task while the cursor is on it, and a Task's cursor and
\* done flag change only in an execute_step call on that Task.
C33_OnlyStepAtCursor ==
    [][\A t \in Tasks :
          /\ \A i \in DOMAIN steps[t] :
                steps'[t][i] # steps[t][i]
                => (PolledNow(t) /\ i = step_iterator[t] + 1)
          /\ (step_iterator'[t] # step_iterator[t] \/ done'[t] # done[t])
             => PolledNow(t)]_vars

\* C33 witness: a Task with its first step done and its last step untouched,
\* next to another Task whose first step is in progress.
C33_Witness ==
    \E t, u \in Tasks :
        /\ t # u
        /\ Len(steps[t]) > 1
        /\ steps[t][1].done
        /\ steps[t][Len(steps[t])] = Step(steps[t][Len(steps[t])].step_type)
        /\ steps[u][1].in_progress /\ ~steps[u][1].done

\* The places of the marker word among the space-separated words of an answer.
markers(output_string) ==
    {k \in DOMAIN split(output_string, << >>) : split(output_string, << >>)[k] = Job}

\* C34: when the answer holds the marker word once, followed by a word with
\* a digit in it, be it the last word of the answer, the extraction returns
\* exactly the digits of that word.
C34_DigitsOfTokenAfterMarker ==
    LET words == split(call.args, << >>) IN
    (/\ call.function = "find_job_id_from_exec_output"
     /\ IdentifierFound(call.args)
     /\ Cardinality(markers(call.args)) = 1)
    => /\ exception = NoException
       /\ \A k \in markers(call.args) :
             call.result = [kind |-> "digits",
                            digits |-> SelectSeq(words[k + 1], isdigit)]

\* C35: the cursor of a Task with steps is an index of its step list, in
\* every state, those after the Task is done and polled again included.
C35_CursorIsValidIndex ==
    \A t \in Tasks :
        Len(steps[t]) > 0
        => (0 <= step_iterator[t] /\ step_iterator[t] < Len(steps[t]))

\* C35 witness: a Task of several steps is done and has been polled again
\* since, its last step having run twice.
C35_Witness ==
    \E t \in Tasks :
        /\ done[t]
        /\ Len(steps[t]) > 1
        /\ step_iterator[t] + 1 = Len(steps[t])
        /\ ncalls[t][Len(steps[t])] > 1

\* C36: the closure of a 'Python' step is invoked at most once, whatever
\* calls of execute_step are made, those after the Task is done included.
C36_ClosureInvokedOnce ==
    \A t \in Tasks : \A i \in DOMAIN steps[t] :
        steps[t][i].step_type = "Python" => ncalls[t][i] <= 1

\* C37: the process's working directory after a clean_project_files call
\* (and so after an execute_step call that cleans) is the one before the
\* call, also when a removal fails.
C37_WorkingDirectoryRestored ==
    call.function = "clean_project_files" => call.cwd = cwd

(***************************************************************************)
(* ScriptedStep: the script written method by method, with the flags that  *)
(* guard the methods.                                                      *)
(***************************************************************************)
\* The most lines of a script.
MaxScript == 12

\* A name in the .vbs string convention, and one that is neither such a
\* string nor a script variable.
Quoted(word) == <<"\"", word, "\"">>

Bare(word) == <<word>>

\* check_is_vbs_string: the first and the last character are double quotes.
check_is_vbs_string(vbs_string) ==
    vbs_string[1] = "\"" /\ vbs_string[Len(vbs_string)] = "\""

\* check_var_or_str raises; script_variables is empty, no variable having
\* been added.
check_var_or_str_raises(variable_name) == ~check_is_vbs_string(variable_name)

\* name.replace('"', '')
unquoted(name) == SelectSeq(name, LAMBDA c : c # "\"")

\* initialize_desktop: the lines every script starts with.
initialize_desktop ==
    <<"Dim oAnsoftApp", "Dim oDesktop", "Set oAnsoftApp", "Set oDesktop",
      "oDesktop.RestoreWindow">>

\* ScriptedStep.__init__: every flag false, nothing loaded, the desktop lines
\* written.
InitScripted ==
    /\ InitTasks({})
    /\ exception = NoException
    /\ p_ratio_tasks = << >>
    /\ driver = DriverIdle
    /\ call = NoCall
    /\ recov = NoRecovery
    /\ scripted_step = [o_project_initialized |-> FALSE,
                        o_design_initialized |-> FALSE,
                        o_module_initialized |-> FALSE,
                        o_project_set |-> FALSE,
                        o_design_set |-> FALSE,
                        o_design_copied |-> FALSE,
                        o_module_set |-> FALSE,
                        o_module_name |-> None,
                        design_quantities |-> {},
                        loaded_quantities |-> 0,
                        script |-> initialize_desktop]

\* A method is called on the step: it raises `raised` or returns, having
\* written `lines` and assigned the fields as in `after`.
Method(function, lines, after, raised) ==
    /\ Len(scripted_step.script) < MaxScript
    /\ call' = function
    /\ scripted_step' = [after EXCEPT !.script = @ \o lines]
    /\ exception' = raised
    /\ UNCHANGED <<task_vars, p_ratio_tasks, driver, recov>>

\* A method raises before it has written or assigned anything.
Refused(function, raised) == Method(function, << >>, scripted_step, raised)

\* set_project, lines 125-134.
set_project(project_name) ==
    LET f == [function |-> "set_project", args |-> [project_name |-> project_name]]
        dim == IF scripted_step.o_project_initialized THEN << >> ELSE <<"Dim oProject">>
        initialized == [scripted_step EXCEPT !.o_project_initialized = TRUE]
    IN  IF check_var_or_str_raises(project_name)
        THEN Method(f, dim, initialized, "Exception: not a vbs string")
        ELSE Method(f, dim \o <<"Set oProject">>,
                    [initialized EXCEPT !.o_project_set = TRUE], NoException)

\* set_design without the test of lines 184-185.
set_design_unchecked(design_name) ==
    LET f == [function |-> "set_design", args |-> [design_name |-> design_name]]
        dim == IF scripted_step.o_design_initialized THEN << >> ELSE <<"Dim oDesign">>
        initialized == [scripted_step EXCEPT !.o_design_initialized = TRUE]
    IN  IF check_var_or_str_raises(design_name)
        THEN Method(f, dim, initialized, "Exception: not a vbs string")
        ELSE Method(f, dim \o <<"Set oDesign">>,
                    [initialized EXCEPT !.o_design_set = TRUE], NoException)

\* set_design, lines 184-194.
set_design(design_name) ==
    LET f == [function |-> "set_design", args |-> [design_name |-> design_name]]
        dim == IF scripted_step.o_design_initialized THEN << >> ELSE <<"Dim oDesign">>
        initialized == [scripted_step EXCEPT !.o_design_initialized = TRUE]
    IN  IF ~scripted_step.o_project_set
        THEN Refused(f, "Exception: oProject not set.")
        ELSE IF check_var_or_str_raises(design_name)
        THEN Method(f, dim, initialized, "Exception: not a vbs string")
        ELSE Method(f, dim \o <<"Set oDesign">>,
                    [initialized EXCEPT !.o_design_set = TRUE], NoException)

\* set_module, lines 292-305.
set_module(module_name) ==
    LET f == [function |-> "set_module", args |-> [module_name |-> module_name]]
        dim == IF scripted_step.o_module_initialized THEN << >> ELSE <<"Dim oModule">>
        initialized == [scripted_step EXCEPT !.o_module_initialized = TRUE]
    IN  IF ~scripted_step.o_design_set
        THEN Refused(f, "Exception: Design not set.")
        ELSE IF check_var_or_str_raises(module_name)
        THEN Method(f, dim, initialized, "Exception: not a vbs string")
        ELSE Method(f, dim \o <<"Set oModule">>,
                    [initialized EXCEPT !.o_module_name = Some(unquoted(module_name)),
                                        !.o_module_set = TRUE],
                    NoException)

\* copy_design, lines 205-211.
copy_design(design_name) ==
    LET f == [function |-> "copy_design", args |-> [design_name |-> design_name]]
    IN  IF ~scripted_step.o_project_set
        THEN Refused(f, "Exception: oProject not set")
        ELSE IF check_var_or_str_raises(design_name)
        THEN Refused(f, "Exception: not a vbs string")
        ELSE Method(f, <<"oProject.CopyDesign">>,
                    [scripted_step EXCEPT !.o_design_copied = TRUE], NoException)

\* paste_design that never consumes the copy.
paste_design_keeps_copy(multiple_copies) ==
    LET f == [function |-> "paste_design",
              args |-> [multiple_copies |-> multiple_copies]]
    IN  IF ~scripted_step.o_design_copied
        THEN Refused(f, "Exception: No oDesign previously copied.")
        ELSE Method(f, <<"oProject.Paste">>, scripted_step, NoException)

\* paste_design, lines 222-227.
paste_design(multiple_copies) ==
    LET f == [function |-> "paste_design",
              args |-> [multiple_copies |-> multiple_copies]]
    IN  IF ~scripted_step.o_design_copied
        THEN Refused(f, "Exception: No oDesign previously copied.")
        ELSE Method(f, <<"oProject.Paste">>,
                    [scripted_step EXCEPT
                        !.o_design_copied = IF multiple_copies THEN @ ELSE FALSE],
                    NoException)

\* `if self.o_module_name != 'FieldsReporter'` of the FieldsReporter methods.
FieldsReporter_activated ==
    scripted_step.o_module_name = Some(<<"FieldsReporter">>)

\* load_scalar, lines 948-950: no test at all.
load_scalar ==
    Method([function |-> "load_scalar"], <<"oModule.EnterScalar">>,
           [scripted_step EXCEPT !.loaded_quantities = @ + 1], NoException)

\* create_quantity, lines 928-937: no test of loaded_quantities.
create_quantity(quantity_name) ==
    LET f == [function |-> "create_quantity",
              args |-> [quantity_name |-> quantity_name]]
    IN  IF ~FieldsReporter_activated
        THEN Refused(f, "Exception: FieldsReporter not activated.")
        ELSE IF quantity_name \in scripted_step.design_quantities
        THEN Refused(f, "Warning: Quantity already added")
        ELSE Method(f, <<"oModule.AddNamedExpression">>,
                    [scripted_step EXCEPT !.design_quantities = @ \cup {quantity_name},
                                          !.loaded_quantities = @ - 1],
                    NoException)

\* calc_multiply_vectors, lines 1000-1008.
calc_multiply_vectors ==
    LET f == [function |-> "calc_multiply_vectors"]
    IN  IF ~FieldsReporter_activated
        THEN Refused(f, "Exception: FieldsReporter not activated.")
        ELSE IF scripted_step.loaded_quantities < 2
        THEN Refused(f, "Exception: at least two quantities should be loaded.")
        ELSE Method(f, <<"oModule.CalcOp \"Dot\"">>,
                    [scripted_step EXCEPT !.loaded_quantities = @ - 1], NoException)

\* calc_integrate, lines 1083-1087: no test of loaded_quantities.
calc_integrate ==
    LET f == [function |-> "calc_integrate"]
    IN  IF ~FieldsReporter_activated
        THEN Refused(f, "Exception: FieldsReporter not activated.")
        ELSE Method(f, <<"oModule.CalcOp \"Integrate\"">>,
                    [scripted_step EXCEPT !.loaded_quantities = @ - 1], NoException)

\* The names the methods are called with.
ProjectNames == {Quoted("project_1"), Bare("project_1")}

DesignNames == {Quoted("Design1"), Bare("Design1")}

ModuleNames == {Quoted("FieldsReporter"), Quoted("Optimetrics"), Bare("FieldsReporter")}

\* Any method may be called at any time, with any argument.
NextScripted ==
    \/ \E project_name \in ProjectNames : set_project(project_name)
    \/ \E design_name \in DesignNames : set_design(design_name)
    \/ \E module_name \in ModuleNames : set_module(module_name)
    \/ \E design_name \in DesignNames : copy_design(design_name)
    \/ \E multiple_copies \in BOOLEAN : paste_design(multiple_copies)
    \/ load_scalar
    \/ create_quantity("p_ratio")
    \/ calc_multiply_vectors
    \/ calc_integrate

SpecScripted == InitScripted /\ [][NextScripted]_vars

\* The script holds the line.
Wrote(line) == \E k \in DOMAIN scripted_step.script : scripted_step.script[k] = line

\* The step of the system is a call of `function`.
Calls(function) == call'.function = function

\* The call returns.
Succeeds == exception' = NoException

\* C38: set_design returns only when a set_project has returned before it,
\* set_module only when a set_design has returned before it; called out of
\* that order, either raises and leaves the script as it was.
C38_HandlesBoundInOrder ==
    [][/\ (Calls("set_design") /\ ~Wrote("Set oProject"))
          => (~Succeeds /\ scripted_step'.script = scripted_step.script)
       /\ (Calls("set_module") /\ ~Wrote("Set oDesign"))
          => (~Succeeds /\ scripted_step'.script = scripted_step.script)]_vars

\* C38 witness: the three handles have been bound in order, the module last.
C38_Witness ==
    /\ call.function = "set_module"
    /\ exception = NoException
    /\ Wrote("Set oProject") /\ Wrote("Set oDesign") /\ Wrote("Set oModule")

\* C39: paste_design returns exactly when a design is copied and not yet
\* consumed; a paste with multiple_copies false consumes the copy, one with
\* multiple_copies true leaves it; only a copy_design that returns makes a
\* new copy; and a paste that raises writes nothing.
C39_PasteNeedsUnconsumedCopy ==
    [][/\ Calls("paste_design")
          => /\ Succeeds <=> scripted_step.o_design_copied
             /\ Succeeds => /\ scripted_step'.o_design_copied
                                = call'.args.multiple_copies
                            /\ scripted_step'.script
                                = Append(scripted_step.script, "oProject.Paste")
             /\ ~Succeeds => scripted_step' = scripted_step
       /\ (~scripted_step.o_design_copied /\ scripted_step'.o_design_copied)
          => (Calls("copy_design") /\ Succeeds)
       /\ (scripted_step.o_design_copied /\ ~scripted_step'.o_design_copied)
          => Calls("paste_design")]_vars

\* C39 witness: after one copy_design, two pastes with multiple_copies true
\* and one with multiple_copies false have been written, the last consuming
\* the copy.
C39_Witness ==
    /\ call.function = "paste_design"
    /\ ~call.args.multiple_copies
    /\ exception = NoException
    /\ ~scripted_step.o_design_copied
    /\ Cardinality({k \in DOMAIN scripted_step.script :
                       scripted_step.script[k] = "oProject.CopyDesign"}) = 1
    /\ Cardinality({k \in DOMAIN scripted_step.script :
                       scripted_step.script[k] = "oProject.Paste"}) = 3

\* C40: loaded_quantities is never negative.
C40_LoadedQuantitiesNotNegative ==
    scripted_step.loaded_quantities >= 0

=============================================================================
